---- MODULE Spec2Model ----
(***************************************************************************)
(* Model of react-slots (src/react-slots.tsx): getSlots partitions the     *)
(* children of a component into named slots and leftover children,         *)
(* according to a slot schema.                                             *)
(*                                                                         *)
(* A React node is a record                                                *)
(*   kind  : "element" | "text" | "null" | "false" | "undefined"           *)
(*   type  : the value of node.type: a component identity ("A", "B"), a    *)
(*           host tag ("div", a JS string), the fragment symbol, or        *)
(*           "undefined" for values that are not elements                  *)
(*   id    : the reference identity of the node (its path in the input)    *)
(*   kform : shape of props.children: "absent" | "single" | "array"        *)
(*   kids  : the node(s) of props.children                                 *)
(***************************************************************************)
EXTENDS Integers, Sequences, FiniteSets, TLC

VARIABLES schema, children, result, pc, heap, wrapper, calls

vars == <<schema, children, result, pc, heap, wrapper, calls>>

\* ------------------------------------------------------------------ bounds
MaxTop == 2      \* longest top-level children array
MaxKids == 2     \* longest children array of a top-level fragment
NumRefs == 2     \* distinct children references a wrapper is rendered with
MaxOrder == 4    \* longest children array whose order is permuted
MaxRenders == 3  \* renders of a wrapper

\* ------------------------------------------------------- node vocabulary
CompOrder == <<"A", "B">>
Comps == {CompOrder[i] : i \in DOMAIN CompOrder}
HostTypes == {"div"}
ReactFragmentSymbol == "react.fragment"
SlotNames == <<"X", "Y">>

NoKids == <<>>

Elem(t) == [kind |-> "element", type |-> t, id |-> 0, kform |-> "absent", kids |-> NoKids]
Text == [kind |-> "text", type |-> "undefined", id |-> 0, kform |-> "absent", kids |-> NoKids]
Falsy(k) == [kind |-> k, type |-> "undefined", id |-> 0, kform |-> "absent", kids |-> NoKids]
Frag(form, ks) == [kind |-> "element", type |-> ReactFragmentSymbol, id |-> 0, kform |-> form, kids |-> ks]

FalsyKinds == {"null", "false", "undefined"}

IsFragment(n) == n.kind = "element" /\ n.type = ReactFragmentSymbol

SeqsUpTo(S, n) == UNION {[1..k -> S] : k \in 0..n}

\* ---------------------------------------------------------- input domains
\* Top-level children are elements, text and falsy placeholders; the children
\* of a fragment are elements, among them fragments nested one level deeper.
TopLeaves == {Elem(t) : t \in Comps \cup HostTypes} \cup {Text} \cup {Falsy(k) : k \in FalsyKinds}
KidLeaves == {Elem(t) : t \in Comps \cup HostTypes}
InnerFragments == {Frag("single", <<Elem("A")>>), Frag("array", <<Elem("A"), Elem("div")>>)}
KidItems == KidLeaves \cup InnerFragments
Fragments == {Frag("absent", NoKids)} \cup {Frag("single", <<x>>) : x \in KidItems} \cup {Frag("array", s) : s \in SeqsUpTo(KidItems, MaxKids)}
TopItems == TopLeaves \cup Fragments
\* Top-level arrays: leaves, with at most one of them replaced by a fragment.
LeafArrays == SeqsUpTo(TopLeaves, MaxTop)
TopArrays == LeafArrays \cup {[s EXCEPT ![i] = f] : <<s, i, f>> \in {x \in LeafArrays \X (1..MaxTop) \X Fragments : x[2] <= Len(x[1])}}

\* Reference identities: a node's id is its path in the input.
Label3(n, i) == [n EXCEPT !.id = i]
Label2(n, i) == [n EXCEPT !.id = i, !.kids = IF n.kids = NoKids THEN NoKids ELSE [k \in 1..Len(n.kids) |-> Label3(n.kids[k], 10 * i + k)]]
Label1(n, i) == [n EXCEPT !.id = i, !.kids = IF n.kids = NoKids THEN NoKids ELSE [k \in 1..Len(n.kids) |-> Label2(n.kids[k], 10 * i + k)]]
LabelSeq(s) == IF s = NoKids THEN NoKids ELSE [i \in 1..Len(s) |-> Label1(s[i], i)]

ChildrenInputs == {[form |-> "absent", items |-> NoKids]} \cup {[form |-> "single", items |-> LabelSeq(<<x>>)] : x \in TopItems} \cup {[form |-> "array", items |-> LabelSeq(s)] : s \in TopArrays}

\* A schema is the ordered list of its entries (for..in order).  Slot names
\* are unique and every component identity is declared by at most one entry
\* (the lookup maps an identity to one slot name).  Entries are listed in the
\* order of their components: with distinct components the order in which
\* for..in registers them does not change the lookup.
Forms == {"single", "repeat", "namespaced"}
\* comp is the component, the tuple's element or the first value of the
\* mapping; rest holds the further values of a mapping with several keys.
Entry(i, f, c) == [name |-> SlotNames[i], form |-> f, comp |-> c, rest |-> <<>>]
Rank(c) == CHOOSE r \in DOMAIN CompOrder : CompOrder[r] = c
Schemas == {s \in UNION {[1..k -> [form : Forms, comp : Comps]] : k \in 0..Len(SlotNames)} : \A i, j \in DOMAIN s : i < j => Rank(s[i].comp) < Rank(s[j].comp)}
NameSchema(s) == IF s = <<>> THEN <<>> ELSE [i \in 1..Len(s) |-> Entry(i, s[i].form, s[i].comp)]
SchemaInputs == {NameSchema(s) : s \in Schemas}

\* ------------------------------------------------------------- getSlots
EmptySlots == [x \in {} |-> x]

\* Array.isArray(schema[slot])
IsArrayEntry(e) == e.form = "repeat"

\* The key a node's type presents to constructorMap.
TypeKey(t) == IF t \in Comps THEN <<"function", t>> ELSE <<"primitive", t>>

ArrayValue(s) == [isArray |-> TRUE, items |-> s]
NodeValue(n) == [isArray |-> FALSE, items |-> <<n>>]

\* Mutation: the namespaced form registers its nested component.
MapKey_NestedComponent(e) == <<"function", e.comp>>

\* The key under which an entry is stored in constructorMap: the component
\* for a bare component and for a tuple (schema[slot][0]), the mapping object
\* itself for the namespaced form (schema[slot]).
MapKey(e) == IF IsArrayEntry(e) THEN <<"function", e.comp>> ELSE IF e.form = "namespaced" THEN <<"object", e.name>> ELSE <<"function", e.comp>>

\* Mutation: a repeatable slot is not pre-initialised.
PreInit_Skip(slots, e) == slots

\* sortedSlots[slot] = []
PreInit(slots, e) == (e.name :> ArrayValue(<<>>)) @@ slots

RECURSIVE BuildLookup(_, _, _, _)
BuildLookup(sch, i, cmap, slots) ==
  IF i > Len(sch) THEN [constructorMap |-> cmap, sortedSlots |-> slots]
  ELSE LET e == sch[i] IN
       IF IsArrayEntry(e)
       THEN BuildLookup(sch, i + 1, (MapKey(e) :> e.name) @@ cmap, PreInit(slots, e))
       ELSE BuildLookup(sch, i + 1, (MapKey(e) :> e.name) @@ cmap, slots)

Truthy(n) == n.kind \notin FalsyKinds

\* children -> _children
Normalize(ch) ==
  IF ch.form = "absent" THEN <<>>
  ELSE IF ch.form = "single" THEN (IF Truthy(ch.items[1]) THEN ch.items ELSE <<>>)
  ELSE ch.items

\* Mutation: falsy children are not filtered out.
FilterFalsy_Keep(s) == s

FilterFalsy(s) == SelectSeq(s, Truthy)

\* e.props?.children ?? [] as flatMap splices it in
PropsChildren(e) ==
  IF e.kform = "absent" THEN <<>>
  ELSE IF e.kform = "single" THEN (IF e.kids[1].kind \in {"null", "undefined"} THEN <<>> ELSE e.kids)
  ELSE e.kids

\* Mutation: fragments are not flattened.
FlatMapOne_NoFlatten(e) == <<e>>

\* Mutation: fragments are flattened at every depth.
RECURSIVE DeepFlatten(_)
DeepFlatten(s) == IF s = <<>> THEN <<>> ELSE (IF IsFragment(Head(s)) THEN DeepFlatten(PropsChildren(Head(s))) ELSE <<Head(s)>>) \o DeepFlatten(Tail(s))
FlatMapOne_Deep(e) == DeepFlatten(<<e>>)

FlatMapOne(e) == IF e.type = ReactFragmentSymbol THEN PropsChildren(e) ELSE <<e>>

RECURSIVE FlatMapFragments(_)
FlatMapFragments(s) == IF s = <<>> THEN <<>> ELSE FlatMapOne(Head(s)) \o FlatMapFragments(Tail(s))

EntryOf(sch, name) == sch[CHOOSE i \in DOMAIN sch : sch[i].name = name]

SetSlot(slots, key, v) == (key :> v) @@ slots

\* Mutation: a non-repeatable slot keeps its first match.
InsertSlot_FirstWins(sch, slots, key, cv) ==
  IF ~IsArrayEntry(EntryOf(sch, key)) THEN (IF key \in DOMAIN slots THEN slots ELSE SetSlot(slots, key, NodeValue(cv)))
  ELSE SetSlot(slots, key, ArrayValue(Append(slots[key].items, cv)))

InsertSlot(sch, slots, key, cv) ==
  IF ~IsArrayEntry(EntryOf(sch, key)) THEN SetSlot(slots, key, NodeValue(cv))
  ELSE IF key \notin DOMAIN slots THEN SetSlot(slots, key, ArrayValue(<<cv>>))
  ELSE IF slots[key].isArray THEN SetSlot(slots, key, ArrayValue(Append(slots[key].items, cv)))
  ELSE SetSlot(slots, key, ArrayValue(<<slots[key].items[1], cv>>))

\* Mutation: leftover children are collected in reverse.
PushChild_Unshift(chs, cv) == <<cv>> \o chs

PushChild(chs, cv) == Append(chs, cv)

\* Mutation: a matched node is also pushed to the leftover children.
ReduceStep_FallsThrough(sch, cmap, p, cv) ==
  IF p.status # "ok" THEN p
  ELSE IF cv.kind \in {"null", "undefined"} THEN [p EXCEPT !.status = "TypeError"]
  ELSE LET childType == cv.type IN
       IF childType \notin HostTypes /\ TypeKey(childType) \in DOMAIN cmap
       THEN [p EXCEPT !.slots = InsertSlot(sch, p.slots, cmap[TypeKey(childType)], cv), !.children = Append(p.children, cv)]
       ELSE [p EXCEPT !.children = Append(p.children, cv)]

\* Mutation: a slot is recognised only before the first leftover child.
ReduceStep_LeadingOnly(sch, cmap, p, cv) ==
  IF p.status # "ok" THEN p
  ELSE IF cv.kind \in {"null", "undefined"} THEN [p EXCEPT !.status = "TypeError"]
  ELSE LET childType == cv.type IN
       IF childType \notin HostTypes /\ TypeKey(childType) \in DOMAIN cmap /\ p.children = <<>>
       THEN [p EXCEPT !.slots = InsertSlot(sch, p.slots, cmap[TypeKey(childType)], cv)]
       ELSE [p EXCEPT !.children = Append(p.children, cv)]

\* One call of the reduce callback; reading .type of null or undefined throws.
ReduceStep(sch, cmap, p, cv) ==
  IF p.status # "ok" THEN p
  ELSE IF cv.kind \in {"null", "undefined"} THEN [p EXCEPT !.status = "TypeError"]
  ELSE LET childType == cv.type IN
       IF childType \notin HostTypes /\ TypeKey(childType) \in DOMAIN cmap
       THEN [p EXCEPT !.slots = InsertSlot(sch, p.slots, cmap[TypeKey(childType)], cv)]
       ELSE [p EXCEPT !.children = PushChild(p.children, cv)]

RECURSIVE Reduce(_, _, _, _)
Reduce(sch, cmap, p, s) == IF s = <<>> THEN p ELSE Reduce(sch, cmap, ReduceStep(sch, cmap, p, Head(s)), Tail(s))

Flattened(ch) == FlatMapFragments(FilterFalsy(Normalize(ch)))

GetSlots(ch, sch) ==
  LET lk == BuildLookup(sch, 1, EmptySlots, EmptySlots)
      r == Reduce(sch, lk.constructorMap, [status |-> "ok", children |-> <<>>, slots |-> lk.sortedSlots], Flattened(ch))
  IN IF r.status = "ok" THEN r ELSE [status |-> r.status, children |-> <<>>, slots |-> EmptySlots]

\* ------------------------------------------------------------ withSlots
\* Mutation: a tuple is exposed as it is, not by its element.
ResolveChildSlot_NoUnwrap(e) == IF e.form = "single" THEN <<"function", e.comp>> ELSE <<"object", e.name>>

\* The identity resolveChildSlot returns for a schema value.
ResolveChildSlot(e) ==
  IF IsArrayEntry(e) THEN <<"function", e.comp>>
  ELSE IF e.form = "namespaced" /\ 1 + Len(e.rest) = 1 THEN <<"function", e.comp>>
  ELSE IF e.form = "namespaced" THEN <<"object", e.name>>
  ELSE <<"function", e.comp>>

\* Object.fromEntries(Object.entries(schema).map(...)): the static properties.
StaticSlots(sch) == [n \in {sch[i].name : i \in DOMAIN sch} |-> ResolveChildSlot(EntryOf(sch, n))]

\* Mutation: the memo has no dependencies and never recomputes.
DepsChanged_Never(prev, next) == FALSE

\* useMemo's dependency check on [props?.children] (Object.is).
DepsChanged(prev, next) == prev # next

\* ------------------------------------------------------------ behaviour
NoResult == [status |-> "none", children |-> <<>>, slots |-> EmptySlots]
NoWrapper == [status |-> "none", via |-> "none", statics |-> EmptySlots, memoSet |-> FALSE, memoDep |-> 0, memoVal |-> NoResult, propsRef |-> 0, forwarded |-> NoResult, renders |-> 0, hits |-> 0]
NoHeap == <<>>
NoCalls == <<>>

Init ==
  /\ schema \in SchemaInputs
  /\ children \in ChildrenInputs
  /\ result = NoResult
  /\ pc = "ready"
  /\ heap = NoHeap
  /\ wrapper = NoWrapper
  /\ calls = NoCalls

\* A caller invokes getSlots(children, schema) and receives its result.
CallGetSlots ==
  /\ pc = "ready"
  /\ result' = GetSlots(children, schema)
  /\ pc' = IF result'.status = "ok" THEN "returned" ELSE "threw"
  /\ UNCHANGED <<schema, children, heap, wrapper, calls>>

Next == CallGetSlots

Spec == Init /\ [][Next]_vars

Returned == pc = "returned"

TypeOK ==
  /\ pc \in {"ready", "returned", "threw"}
  /\ result.status \in {"none", "ok", "TypeError"}
\* ------------------------------------- fragments with falsy children
\* Inputs in which the children of a fragment may be text or falsy
\* placeholders as well ({cond && <A />} inside <>...</>).
KidItemsWithFalsy == KidItems \cup {Text} \cup {Falsy(k) : k \in FalsyKinds}
FragmentsWithFalsy == {Frag("absent", NoKids)} \cup {Frag("single", <<x>>) : x \in KidItemsWithFalsy} \cup {Frag("array", s) : s \in SeqsUpTo(KidItemsWithFalsy, MaxKids)}
TopArraysWithFalsy == LeafArrays \cup {[s EXCEPT ![i] = f] : <<s, i, f>> \in {x \in LeafArrays \X (1..MaxTop) \X FragmentsWithFalsy : x[2] <= Len(x[1])}}
ChildrenInputsWithFalsy == {[form |-> "absent", items |-> NoKids]} \cup {[form |-> "single", items |-> LabelSeq(<<x>>)] : x \in TopLeaves \cup FragmentsWithFalsy} \cup {[form |-> "array", items |-> LabelSeq(s)] : s \in TopArraysWithFalsy}

InitWithFalsy ==
  /\ schema \in SchemaInputs
  /\ children \in ChildrenInputsWithFalsy
  /\ result = NoResult
  /\ pc = "ready"
  /\ heap = NoHeap
  /\ wrapper = NoWrapper
  /\ calls = NoCalls

SpecWithFalsy == InitWithFalsy /\ [][Next]_vars

\* ----------------------------------------------- order of the children
\* Flat arrays of elements and text, classified by schemas of
\* single-component slots.
OrderLeaves == {Elem(t) : t \in Comps \cup HostTypes} \cup {Text}
OrderInputs == {[form |-> "array", items |-> LabelSeq(s)] : s \in SeqsUpTo(OrderLeaves, MaxOrder)}
SingleSchemas == {s \in SchemaInputs : \A i \in DOMAIN s : s[i].form = "single"}

InitOrder ==
  /\ schema \in SingleSchemas
  /\ children \in OrderInputs
  /\ result = NoResult
  /\ pc = "ready"
  /\ heap = NoHeap
  /\ wrapper = NoWrapper
  /\ calls = NoCalls

SpecOrder == InitOrder /\ [][Next]_vars

\* ------------------------------------------------ the composed component
\* Schemas with a mapping entry of two keys, next to the well-formed ones.
MalformedEntry(i, c, r) == [name |-> SlotNames[i], form |-> "namespaced", comp |-> c, rest |-> <<r>>]
MalformedSchemas == {<<MalformedEntry(1, "A", "B")>>, <<Entry(1, "single", "A"), MalformedEntry(2, "B", "A")>>, <<Entry(1, "repeat", "B"), MalformedEntry(2, "A", "B")>>}
HasMalformed(sch) == \E i \in DOMAIN sch : sch[i].form = "namespaced" /\ Len(sch[i].rest) > 0

\* The children a wrapper is rendered with.  A reference always denotes the
\* same value: React elements and their props are immutable.
RenderInputs ==
  {[form |-> "absent", items |-> NoKids],
   [form |-> "single", items |-> LabelSeq(<<Elem("A")>>)],
   [form |-> "array", items |-> LabelSeq(<<Elem("A"), Elem("div")>>)],
   [form |-> "array", items |-> LabelSeq(<<Elem("B"), Elem("A")>>)],
   [form |-> "array", items |-> LabelSeq(<<Frag("array", <<Elem("A"), Elem("div")>>), Elem("A")>>)],
   [form |-> "array", items |-> LabelSeq(<<Frag("array", <<Falsy("null"), Elem("A")>>)>>)]}
Refs == 1..NumRefs

InitWrapper ==
  /\ schema \in SchemaInputs \cup MalformedSchemas
  /\ heap \in [Refs -> RenderInputs]
  /\ children = [form |-> "absent", items |-> NoKids]
  /\ result = NoResult
  /\ pc = "ready"
  /\ wrapper = NoWrapper
  /\ calls = NoCalls

Build(via) ==
  /\ wrapper.status = "none"
  /\ wrapper' = [wrapper EXCEPT !.status = "built", !.via = via, !.statics = StaticSlots(schema)]
  /\ UNCHANGED <<schema, children, result, pc, heap, calls>>

\* withSlots(Parent, schema)
WithSlots == Build("withSlots")

\* SlottedComponent(schema)(Parent)
SlottedComponent == Build("SlottedComponent")

\* One render of SlotProvider with props.children = the value at reference r.
SlotProvider(r) ==
  /\ wrapper.status = "built"
  /\ wrapper.renders < MaxRenders
  /\ LET recompute == ~wrapper.memoSet \/ DepsChanged(wrapper.memoDep, r)
         value == IF recompute THEN GetSlots(heap[r], schema) ELSE wrapper.memoVal
     IN IF value.status = "ok"
        THEN wrapper' = [wrapper EXCEPT !.memoSet = TRUE, !.memoDep = r, !.memoVal = value, !.propsRef = r, !.forwarded = value, !.renders = @ + 1, !.hits = IF recompute THEN @ ELSE @ + 1]
        \* getSlots threw: the render is abandoned and the memo is not stored
        ELSE wrapper' = [wrapper EXCEPT !.propsRef = r, !.forwarded = value, !.renders = @ + 1]
  /\ children' = heap[r]
  /\ UNCHANGED <<schema, result, pc, heap, calls>>

Render == \E r \in Refs : SlotProvider(r)

NextWrapper == WithSlots \/ SlottedComponent \/ Render

SpecWrapper == InitWrapper /\ [][NextWrapper]_vars

\* ------------------------------------------------- calls step by step
\* getSlots as the sequence of its steps, run by two call sites over shared
\* children values and a shared schema.  A frame holds the locals of a call.
Calls == {"c1", "c2"}
Other(c) == CHOOSE d \in Calls : d # c
Active(c) == calls[c].pc \in {"schema", "flatten", "reduce"}

CallSchemas == {<<>>, <<Entry(1, "repeat", "A")>>, <<Entry(1, "single", "A"), Entry(2, "repeat", "B")>>, <<Entry(1, "namespaced", "A"), Entry(2, "single", "B")>>}
CallInputs ==
  {[form |-> "single", items |-> LabelSeq(<<Elem("A")>>)],
   [form |-> "array", items |-> LabelSeq(<<Frag("array", <<Elem("A"), Elem("div")>>), Elem("B"), Elem("A")>>)],
   [form |-> "array", items |-> LabelSeq(<<Falsy("false"), Elem("B"), Text>>)]}

IdleFrame == [pc |-> "idle", ref |-> 0, given |-> [form |-> "absent", items |-> NoKids], givenSchema |-> <<>>, i |-> 0, cmap |-> EmptySlots, p |-> NoResult, rest |-> <<>>, result |-> NoResult, overlapped |-> FALSE]

\* Mutation: sortedChildren is one array shared by all calls.
FreshFrame_SharedChildren(c, r) ==
  [pc |-> "schema", ref |-> r, given |-> heap[r], givenSchema |-> schema, i |-> 1, cmap |-> EmptySlots,
   p |-> [status |-> "ok", children |-> calls[Other(c)].p.children, slots |-> EmptySlots],
   rest |-> <<>>, result |-> NoResult, overlapped |-> Active(Other(c))]

\* sortedChildren = [], sortedSlots = {}, constructorMap = new WeakMap()
FreshFrame(c, r) ==
  [pc |-> "schema", ref |-> r, given |-> heap[r], givenSchema |-> schema, i |-> 1, cmap |-> EmptySlots,
   p |-> [status |-> "ok", children |-> <<>>, slots |-> EmptySlots],
   rest |-> <<>>, result |-> NoResult, overlapped |-> Active(Other(c))]

Step(c, f) == calls' = [calls EXCEPT ![c] = [f EXCEPT !.overlapped = @ \/ Active(Other(c))]]

InitCalls ==
  /\ schema \in CallSchemas
  /\ heap \in [Refs -> CallInputs]
  /\ children = [form |-> "absent", items |-> NoKids]
  /\ result = NoResult
  /\ pc = "ready"
  /\ wrapper = NoWrapper
  /\ calls = [c \in Calls |-> IdleFrame]

\* getSlots(heap[r], schema) is entered.
Begin(c) ==
  /\ calls[c].pc = "idle"
  /\ \E r \in Refs : Step(c, FreshFrame(c, r))
  /\ UNCHANGED <<schema, children, result, pc, heap, wrapper>>

\* One iteration of for (const slot in schema).
SchemaStep(c) ==
  LET f == calls[c] IN
  /\ f.pc = "schema"
  /\ IF f.i > Len(schema)
     THEN Step(c, [f EXCEPT !.pc = "flatten"])
     ELSE LET e == schema[f.i] IN
          Step(c, [f EXCEPT !.i = @ + 1, !.cmap = (MapKey(e) :> e.name) @@ @, !.p.slots = IF IsArrayEntry(e) THEN PreInit(@, e) ELSE @])
  /\ UNCHANGED <<schema, children, result, pc, heap, wrapper>>

\* .filter(...).flatMap(...): new arrays built from the children.
FlattenStep(c) ==
  LET f == calls[c] IN
  /\ f.pc = "flatten"
  /\ Step(c, [f EXCEPT !.pc = "reduce", !.rest = Flattened(heap[f.ref])])
  /\ UNCHANGED <<schema, children, result, pc, heap, wrapper>>

\* One call of the reduce callback, or the return once the array is consumed.
ReduceOne(c) ==
  LET f == calls[c] IN
  /\ f.pc = "reduce"
  /\ f.rest # <<>>
  /\ LET q == ReduceStep(schema, f.cmap, f.p, Head(f.rest)) IN
     IF q.status = "ok"
     THEN Step(c, [f EXCEPT !.p = q, !.rest = Tail(@)])
     ELSE Step(c, [f EXCEPT !.pc = "done", !.result = [status |-> q.status, children |-> <<>>, slots |-> EmptySlots]])
  /\ UNCHANGED <<schema, children, result, pc, heap, wrapper>>

ReturnStep(c) ==
  LET f == calls[c] IN
  /\ f.pc = "reduce"
  /\ f.rest = <<>>
  /\ Step(c, [f EXCEPT !.pc = "done", !.result = f.p])
  /\ UNCHANGED <<schema, children, result, pc, heap, wrapper>>

NextCalls == \E c \in Calls : Begin(c) \/ SchemaStep(c) \/ FlattenStep(c) \/ ReduceOne(c) \/ ReturnStep(c)

SpecCalls == InitCalls /\ [][NextCalls]_vars

\* ------------------------------------------------- vocabulary of the claims
\* The nodes classified by the call: the input after falsy filtering and
\* one-level fragment flattening.
Flat == Flattened(children)

OfType(s, c) == SelectSeq(s, LAMBDA n : n.type = c)
Matches(e) == OfType(Flat, e.comp)
Entries(f) == {i \in DOMAIN schema : schema[i].form = f}
SlotComps == {schema[i].comp : i \in Entries("single") \cup Entries("repeat")}
NamespacedComps == {schema[i].comp : i \in Entries("namespaced")}

Ids(s) == {s[i].id : i \in DOMAIN s}
SlotSize(v) == IF v.isArray THEN Len(v.items) ELSE 1
SlotIds == UNION {Ids(result.slots[k].items) : k \in DOMAIN result.slots}

RECURSIVE SumOver(_, _)
SumOver(S, f) == IF S = {} THEN 0 ELSE LET x == CHOOSE y \in S : TRUE IN f[x] + SumOver(S \ {x}, f)

SlotTotal == SumOver(DOMAIN result.slots, [k \in DOMAIN result.slots |-> SlotSize(result.slots[k])])
NamespacedMatches == Len(SelectSeq(Flat, LAMBDA n : n.type \in NamespacedComps))
\* matches of a single-component entry that a later match overwrote
Overwritten == SumOver(Entries("single"), [i \in Entries("single") |-> IF Len(Matches(schema[i])) > 1 THEN Len(Matches(schema[i])) - 1 ELSE 0])

C4_FirstMatchKept ==
  Returned =>
    \A i \in Entries("single") :
      LET m == Matches(schema[i]) IN
      Len(m) >= 2 =>
        /\ schema[i].name \in DOMAIN result.slots
        /\ result.slots[schema[i].name] = NodeValue(m[1])
FlatFragmentAt(i) ==
  /\ IsFragment(children.items[i])
  /\ \A k \in DOMAIN children.items[i].kids : ~IsFragment(children.items[i].kids[k])

\* The children with the fragment at position i replaced by its children.
Inlined(i) ==
  [form |-> "array",
   items |-> SubSeq(children.items, 1, i - 1) \o children.items[i].kids \o SubSeq(children.items, i + 1, Len(children.items))]

NestedFragments ==
  UNION {{children.items[i].kids[k] : k \in {x \in DOMAIN children.items[i].kids : IsFragment(children.items[i].kids[x])}} :
           i \in {y \in DOMAIN children.items : IsFragment(children.items[y])}}

\* C8: a fragment directly inside a top-level fragment is not unwrapped: it is
\* one element of result.children, and no node inside it is in a slot or an
\* element of result.children.
C8_OneLevelOnly ==
  Returned =>
    \A f \in NestedFragments :
      /\ Cardinality({j \in DOMAIN result.children : result.children[j] = f}) = 1
      /\ \A k \in DOMAIN f.kids : f.kids[k].id \notin Ids(result.children) \cup SlotIds

C8_Witness ==
  /\ Returned
  /\ \E f \in NestedFragments : \E k \in DOMAIN f.kids : f.kids[k].type \in SlotComps
  /\ Len(result.children) >= 2

\* The only node whose type is the component of entry i sits two fragment
\* levels deep.
OnlyMatchNestedTwoDeep(i) ==
  /\ children.form = "array"
  /\ Len(children.items) = 1
  /\ IsFragment(children.items[1])
  /\ children.items[1].kform = "single"
  /\ IsFragment(children.items[1].kids[1])
  /\ \E k \in DOMAIN children.items[1].kids[1].kids : children.items[1].kids[1].kids[k].type = schema[i].comp

\* C9 (test): with the only matching child two fragment levels deep and the
\* slot declared repeatable, getSlots returns one leftover child and the
\* slot's entry in result.slots is undefined.
C9_NestedLeavesSlotUndefined ==
  Returned =>
    \A i \in Entries("repeat") :
      OnlyMatchNestedTwoDeep(i) =>
        /\ Len(result.children) = 1
        /\ schema[i].name \notin DOMAIN result.slots

IsPlaceholder(n) == n.kind \in {"null", "false", "undefined"}

\* The children array with its top-level placeholders removed.
WithoutPlaceholders == [form |-> "array", items |-> SelectSeq(children.items, LAMBDA n : ~IsPlaceholder(n))]

\* C11: null, false and undefined at any position of the top-level children
\* array contribute nothing: the call returns what it returns for the array
\* without them, and none of them is in result.children or in a slot.
C11_FalsyFiltering ==
  children.form = "array" /\ pc # "ready" =>
    /\ Returned
    /\ GetSlots(WithoutPlaceholders, schema) = result
    /\ \A j \in DOMAIN result.children : ~IsPlaceholder(result.children[j])
    /\ \A k \in DOMAIN result.slots : \A j \in DOMAIN result.slots[k].items : ~IsPlaceholder(result.slots[k].items[j])

C11_Witness ==
  /\ Returned
  /\ children.form = "array"
  /\ Len(children.items) = 2
  /\ IsPlaceholder(children.items[1])
  /\ children.items[2].id \in SlotIds
  /\ result.children = <<>>
\* C12: on a well-formed schema getSlots returns a result and raises no
\* exception, whatever the children, fragments with falsy children included.
C12_NeverThrows ==
  pc # "ready" => Returned /\ result.status = "ok"
\* C13: a schema with a mapping entry of more than one key is rejected with a
\* ConfigurationError at construction or first use: no render with such a
\* schema forwards a partition of the children.
C13_MalformedRejected ==
  HasMalformed(schema) /\ wrapper.renders > 0 => wrapper.forwarded.status = "ConfigurationError"

\* The children made of one element created from the static property K.
ChildFrom(identity) == [form |-> "single", items |-> LabelSeq(<<Elem(identity[2])>>)]

C17_RenderForwards ==
  wrapper.renders > 0 =>
    /\ children = heap[wrapper.propsRef]
    /\ wrapper.forwarded = GetSlots(children, schema)

C17_Witness ==
  /\ wrapper.renders = 3
  /\ wrapper.hits = 1
  /\ heap[1] # heap[2]
  /\ GetSlots(heap[1], schema) # GetSlots(heap[2], schema)
  /\ wrapper.forwarded.status = "ok"
  /\ wrapper.forwarded.children # <<>>
  /\ DOMAIN wrapper.forwarded.slots # {}
\* The children array with the element at position i moved to position j.
Without(i) == SubSeq(children.items, 1, i - 1) \o SubSeq(children.items, i + 1, Len(children.items))
Moved(i, j) == [form |-> "array", items |-> SubSeq(Without(i), 1, j - 1) \o <<children.items[i]>> \o SubSeq(Without(i), j, Len(Without(i)))]

\* C14: with single-component slots each matched by at most one child,
\* moving a slotted child to any other position among its siblings changes
\* neither result.slots nor result.children.
C14_OrderIndependence ==
  /\ Returned
  /\ children.form = "array"
  /\ \A i \in DOMAIN schema : schema[i].form = "single" /\ Len(Matches(schema[i])) <= 1
  => \A i, j \in DOMAIN children.items :
       children.items[i].type \in SlotComps => GetSlots(Moved(i, j), schema) = result

C14_Witness ==
  /\ Returned
  /\ Len(schema) = 2
  /\ Len(children.items) = 4
  /\ children.items[1].type = "A" /\ children.items[4].type = "B"
  /\ Len(result.children) = 2
  /\ DOMAIN result.slots = {"X", "Y"}
  /\ GetSlots(Moved(4, 2), schema) = result
\* C16: a call leaves the children and the schema as they were given, and
\* whatever the interleaving with another call it returns what getSlots
\* returns when run alone; calls with the same inputs return equal results.
C16_Isolation ==
  \A c \in DOMAIN calls :
    calls[c].pc = "done" =>
      /\ heap[calls[c].ref] = calls[c].given
      /\ schema = calls[c].givenSchema
      /\ calls[c].result = GetSlots(calls[c].given, schema)
      /\ \A d \in DOMAIN calls : calls[d].pc = "done" /\ calls[d].given = calls[c].given => calls[d].result = calls[c].result

C16_Witness ==
  /\ DOMAIN calls = Calls
  /\ \A c \in Calls : calls[c].pc = "done" /\ calls[c].overlapped /\ calls[c].result.status = "ok"
  /\ calls["c1"].ref # calls["c2"].ref
  /\ calls["c1"].result # calls["c2"].result
  /\ calls["c1"].result.children # <<>> /\ calls["c2"].result.children # <<>>
====
